---- MODULE Spec2Model ----
(***************************************************************************)
(* THREE.RemoteSync and THREE.NetworkClient (js/networks/RemoteSync.js).   *)
(*                                                                         *)
(* Every peer runs one RemoteSync engine on top of one NetworkClient.  The *)
(* variables are the fields of the two objects, one value per peer.  Each  *)
(* method of the source is an operator from an engine record to the engine *)
(* record the method leaves behind; an action runs one public method or    *)
(* one client event handler to completion (the engine is single-threaded). *)
(* A JavaScript exception ends the running handler where it is raised: the *)
(* assignments made so far stay, the rest of the handler does not run.     *)
(***************************************************************************)
EXTENDS Integers, Sequences, FiniteSets, TLC

\* ------------------------------------------------------------ bounds

\* Calls and events of one run (public methods called by the application,
\* events raised by the clients): of one peer's registries, of one peer's
\* remote table, of two peers talking to each other, of a client's connection
\* registry, of one peer's 'receive' listener, and of what one peer hands to
\* its client.
MaxOps == 5
MaxRemoteOps == 5
MaxPairOps == 8
MaxClientOps == 5
MaxReceiveOps == 5
MaxWireOps == 6

\* ------------------------------------------------------------ universe

\* Peers that run an engine in the model; peer C is a peer id only.
Engines == {"A", "B"}

\* THREE.Object3D instances of a peer, named by their uuid.
Objs == {"o1", "o2"}

\* object.morphTargetInfluences !== undefined; o2 is a mesh with one morph target.
HasMorph(o) == o = "o2"

\* Shared ids, user-specified infos, user data.
SharedIds == {"s1"}
Infos == {"i1", "i2"}

Undef == "undefined"
Null == "null"

\* ------------------------------------------------------------ tables

EmptyTable == [k \in {} |-> Undef]
Has(t, k) == k \in DOMAIN t
Put(t, k, v) == [x \in (DOMAIN t) \cup {k} |-> IF x = k THEN v ELSE t[x]]
Delete(t, k) == [x \in (DOMAIN t) \ {k} |-> t[x]]
Get(t, k) == IF k \in DOMAIN t THEN t[k] ELSE Undef

\* ------------------------------------------------------------ constants

TRANSFER_TYPE_SYNC == 0
TRANSFER_TYPE_ADD == 1
TRANSFER_TYPE_REMOVE == 2
TRANSFER_TYPE_USER_DATA == 3

\* var TRANSFER_COMPONENT = { id: null, did: null, type: -1, list: [] }
TRANSFER_COMPONENT == [id |-> Null, did |-> Null, type |-> -1, list |-> << >>]

\* float32Value[ 0 ] = value; return float32Value[ 0 ].  A JavaScript number
\* is a double; the unit of the model is half the float32 resolution at the
\* magnitudes used, so 0 and 1 are two doubles with the same float32 image and
\* 2 is the next float32.
ensureFloat32(value) == (value \div 2) * 2

Float32Seq(s) == [i \in 1..Len(s) |-> ensureFloat32(s[i])]

VARIABLES
    id,                  \* RemoteSync.id / NetworkClient.id
    localObjects,        \* array of local objects
    localObjectTable,    \* object.uuid -> object
    localObjectInfos,    \* object.uuid -> info
    remoteObjectTable,   \* remote peer id -> remote object.uuid -> object
    sharedObjects,       \* array of shared objects
    sharedObjectTable,   \* shared id -> object
    transferComponents,  \* object.uuid -> component
    connections,         \* NetworkClient.connections (the .peer of each)
    connectionTable,     \* NetworkClient.connectionTable
    objects,             \* the Object3D instances: matrix.elements, morphTargetInfluences
    buffer,              \* the module-wide TRANSFER_COMPONENT
    sent,                \* what the running handler handed to client.send / .broadcast
    notified,            \* listener invocations of the running handler
    trace,               \* both, in the order the running handler made them
    thrown,              \* the exception that ended the running handler, or "none"
    op,                  \* the method or event that ran last
    actor,               \* the peer it ran on
    left                 \* calls and events the run has left

vars == <<id, localObjects, localObjectTable, localObjectInfos, remoteObjectTable,
          sharedObjects, sharedObjectTable, transferComponents, connections,
          connectionTable, objects, buffer, sent, notified, trace, thrown, op, actor,
          left>>

\* The engine of peer p as one record.
Engine(p) ==
    [id |-> id[p],
     localObjects |-> localObjects[p],
     localObjectTable |-> localObjectTable[p],
     localObjectInfos |-> localObjectInfos[p],
     remoteObjectTable |-> remoteObjectTable[p],
     sharedObjects |-> sharedObjects[p],
     sharedObjectTable |-> sharedObjectTable[p],
     transferComponents |-> transferComponents[p],
     connections |-> connections[p],
     connectionTable |-> connectionTable[p],
     objects |-> objects[p],
     buffer |-> buffer[p],
     sent |-> sent[p],
     notified |-> notified[p],
     trace |-> trace[p],
     thrown |-> thrown[p]]

\* A handler starts with nothing sent, nothing notified, nothing thrown.
Enter(p) ==
    [Engine(p) EXCEPT !.sent = << >>, !.notified = << >>, !.trace = << >>, !.thrown = "none"]

\* Peer p's engine becomes e, after running o.
Commit(p, e, o) ==
    /\ left' = left - 1
    /\ id' = [id EXCEPT ![p] = e.id]
    /\ localObjects' = [localObjects EXCEPT ![p] = e.localObjects]
    /\ localObjectTable' = [localObjectTable EXCEPT ![p] = e.localObjectTable]
    /\ localObjectInfos' = [localObjectInfos EXCEPT ![p] = e.localObjectInfos]
    /\ remoteObjectTable' = [remoteObjectTable EXCEPT ![p] = e.remoteObjectTable]
    /\ sharedObjects' = [sharedObjects EXCEPT ![p] = e.sharedObjects]
    /\ sharedObjectTable' = [sharedObjectTable EXCEPT ![p] = e.sharedObjectTable]
    /\ transferComponents' = [transferComponents EXCEPT ![p] = e.transferComponents]
    /\ connections' = [connections EXCEPT ![p] = e.connections]
    /\ connectionTable' = [connectionTable EXCEPT ![p] = e.connectionTable]
    /\ objects' = [objects EXCEPT ![p] = e.objects]
    /\ buffer' = [buffer EXCEPT ![p] = e.buffer]
    /\ sent' = [sent EXCEPT ![p] = e.sent]
    /\ notified' = [notified EXCEPT ![p] = e.notified]
    /\ trace' = [trace EXCEPT ![p] = e.trace]
    /\ thrown' = [thrown EXCEPT ![p] = e.thrown]
    /\ op' = [op EXCEPT ![p] = o]
    /\ actor' = p

Throw(e, error) == [e EXCEPT !.thrown = error]

\* ------------------------------------------------------------ NetworkClient

\* The abstract client.send / client.broadcast: the component as it is when
\* it is handed over.
send(e, destId, component) ==
    [e EXCEPT !.sent = Append(@, [how |-> "send", to |-> destId, component |-> component]),
              !.trace = Append(@, [kind |-> "send", what |-> component])]

broadcast(e, component) ==
    [e EXCEPT !.sent = Append(@, [how |-> "broadcast", to |-> Null, component |-> component]),
              !.trace = Append(@, [kind |-> "broadcast", what |-> component])]

hasConnection(e, peer) == peer \in e.connectionTable

connectionNum(e) == Len(e.connections)

\* Listener invocation: invoke*Listeners calls every registered callback.
notify(e, event) ==
    [e EXCEPT !.notified = Append(@, event),
              !.trace = Append(@, [kind |-> "notify", what |-> event])]

\* ------------------------------------------------------------ helpers of RemoteSync

RECURSIVE removeLoop(_, _, _, _, _)
removeLoop(array, object, i, readIndex, writeIndex) ==
    IF i >= Len(array) THEN SubSeq(array, 1, writeIndex)
    ELSE IF array[i + 1] = object
         THEN removeLoop([array EXCEPT ![writeIndex + 1] = array[readIndex + 1]],
                         object, i + 1, readIndex + 1, writeIndex + 1)
         ELSE removeLoop(array, object, i + 1, readIndex + 1, writeIndex)

removeObjectFromArray(array, object) == removeLoop(array, object, 0, 0, 0)

createTransferComponent(e, object) ==
    [id |-> object,
     sid |-> Undef,
     matrix |-> Float32Seq(e.objects[object].matrix),
     morphTargetInfluences |->
         IF HasMorph(object) THEN Float32Seq(e.objects[object].morphTargetInfluences)
         ELSE << >>]

buildObjectsAdditionComponent(e, sourceId, objs, infoTable) ==
    [e EXCEPT !.buffer =
        [id |-> sourceId, did |-> Null, type |-> TRANSFER_TYPE_ADD,
         list |-> [i \in 1..Len(objs) |-> [id |-> objs[i], info |-> Get(infoTable, objs[i])]]]]

buildObjectAdditionComponent(e, sourceId, object, info) ==
    [e EXCEPT !.buffer =
        [id |-> sourceId, did |-> Null, type |-> TRANSFER_TYPE_ADD,
         list |-> <<[id |-> object, info |-> info]>>]]

\* buildObjectRemovalComponent without the reset of component.did.
buildObjectRemovalComponentKeepingDid(e, sourceId, object) ==
    [e EXCEPT !.buffer =
        [id |-> sourceId, did |-> e.buffer.did, type |-> TRANSFER_TYPE_REMOVE,
         list |-> <<[id |-> object]>>]]

buildObjectRemovalComponent(e, sourceId, object) ==
    [e EXCEPT !.buffer =
        [id |-> sourceId, did |-> Null, type |-> TRANSFER_TYPE_REMOVE,
         list |-> <<[id |-> object]>>]]

\* component.did is left as the previous message set it.
buildUserDataComponent(e, sourceId, data) ==
    [e EXCEPT !.buffer =
        [id |-> sourceId, did |-> e.buffer.did, type |-> TRANSFER_TYPE_USER_DATA,
         list |-> <<data>>]]

\* ------------------------------------------------------------ RemoteSync, private

broadcastAddObjectRequest(e, object) ==
    LET b == buildObjectAdditionComponent(e, e.id, object, Get(e.localObjectInfos, object))
    IN  broadcast(b, b.buffer)

sendAddObjectsRequest(e, destId) ==
    LET b == buildObjectsAdditionComponent(e, e.id, e.localObjects, e.localObjectInfos)
        c == [b EXCEPT !.buffer.did = destId]
    IN  send(c, destId, c.buffer)

broadcastRemoveObjectRequest(e, object) ==
    LET b == buildObjectRemovalComponent(e, e.id, object)
    IN  broadcast(b, b.buffer)

\* Reads component.matrix first: a TypeError when the object has no component.
checkUpdate(e, object) ==
    LET component == e.transferComponents[object]
        o == e.objects[object]
    IN  \/ \E i \in 1..Len(component.matrix) :
              ensureFloat32(component.matrix[i]) # ensureFloat32(o.matrix[i])
        \/ /\ HasMorph(object)
           /\ \E i \in 1..Len(component.morphTargetInfluences) :
                  ensureFloat32(component.morphTargetInfluences[i])
                      # ensureFloat32(o.morphTargetInfluences[i])

\* The component of object after serialize( object ).
serialized(e, object) ==
    LET component == e.transferComponents[object]
        o == e.objects[object]
    IN  [component EXCEPT
            !.matrix = [i \in 1..Len(component.matrix) |-> ensureFloat32(o.matrix[i])],
            !.morphTargetInfluences =
                IF HasMorph(object)
                THEN [i \in 1..Len(component.morphTargetInfluences) |->
                          ensureFloat32(o.morphTargetInfluences[i])]
                ELSE @]

serialize(e, object) ==
    IF ~Has(e.transferComponents, object) THEN Throw(e, "TypeError")
    ELSE [e EXCEPT !.transferComponents[object] = serialized(e, object)]

\* object.matrix.fromArray( component.matrix ) and the morph influences, when the
\* object has some and the record carries some.
deserialize(e, object, component) ==
    LET array == component.morphTargetInfluences
        array2 == e.objects[object].morphTargetInfluences
    IN  [e EXCEPT !.objects[object] =
            [matrix |-> component.matrix,
             morphTargetInfluences |->
                 IF HasMorph(object) /\ Len(array) > 0
                 THEN [i \in 1..(IF Len(array) > Len(array2) THEN Len(array) ELSE Len(array2)) |->
                           IF i <= Len(array) THEN array[i] ELSE array2[i]]
                 ELSE array2]]

removeRemoteObject(e, destId, objectId) ==
    IF ~Has(e.remoteObjectTable, destId) THEN e
    ELSE IF ~Has(e.remoteObjectTable[destId], objectId) THEN e
    ELSE LET object == e.remoteObjectTable[destId][objectId]
             d == [e EXCEPT !.remoteObjectTable[destId] = Delete(@, objectId)]
         IN  notify(d, <<"remove", destId, objectId, object>>)

\* ------------------------------------------------------------ RemoteSync, public

\* addLocalObject without the test of localObjectTable.
addLocalObjectWithoutCheck(e, object, info) ==
    LET a == [e EXCEPT
                 !.localObjectTable = Put(@, object, object),
                 !.localObjects = Append(@, object),
                 !.localObjectInfos = Put(@, object, info),
                 !.transferComponents = Put(@, object, createTransferComponent(e, object))]
    IN  IF connectionNum(a) > 0 THEN broadcastAddObjectRequest(a, object) ELSE a

\* addLocalObject announcing an object again that is registered already.
addLocalObjectReannouncing(e, object, info) ==
    IF Has(e.localObjectTable, object)
    THEN IF connectionNum(e) > 0 THEN broadcastAddObjectRequest(e, object) ELSE e
    ELSE LET a == [e EXCEPT
                      !.localObjectTable = Put(@, object, object),
                      !.localObjects = Append(@, object),
                      !.localObjectInfos = Put(@, object, info),
                      !.transferComponents = Put(@, object, createTransferComponent(e, object))]
         IN  IF connectionNum(a) > 0 THEN broadcastAddObjectRequest(a, object) ELSE a

addLocalObject(e, object, info) ==
    IF Has(e.localObjectTable, object) THEN e
    ELSE LET a == [e EXCEPT
                      !.localObjectTable = Put(@, object, object),
                      !.localObjects = Append(@, object),
                      !.localObjectInfos = Put(@, object, info),
                      !.transferComponents = Put(@, object, createTransferComponent(e, object))]
         IN  IF connectionNum(a) > 0 THEN broadcastAddObjectRequest(a, object) ELSE a

\* removeLocalObject broadcasting whatever connectionNum() returns.
removeLocalObjectWithoutConnectionCheck(e, object) ==
    IF ~Has(e.localObjectTable, object) THEN e
    ELSE LET r == [e EXCEPT
                      !.localObjectTable = Delete(@, object),
                      !.localObjectInfos = Delete(@, object),
                      !.transferComponents = Delete(@, object),
                      !.localObjects = removeObjectFromArray(@, object)]
         IN  broadcastRemoveObjectRequest(r, object)

removeLocalObject(e, object) ==
    IF ~Has(e.localObjectTable, object) THEN e
    ELSE LET r == [e EXCEPT
                      !.localObjectTable = Delete(@, object),
                      !.localObjectInfos = Delete(@, object),
                      !.transferComponents = Delete(@, object),
                      !.localObjects = removeObjectFromArray(@, object)]
         IN  IF connectionNum(r) > 0 THEN broadcastRemoveObjectRequest(r, object) ELSE r

addRemoteObject(e, destId, objectId, object) ==
    LET t == IF Has(e.remoteObjectTable, destId) THEN e.remoteObjectTable
             ELSE Put(e.remoteObjectTable, destId, EmptyTable)
    IN  IF Has(t[destId], objectId) THEN [e EXCEPT !.remoteObjectTable = t]
        ELSE [e EXCEPT !.remoteObjectTable = [t EXCEPT ![destId] = Put(@, objectId, object)]]

\* addSharedObject without the test of sharedObjectTable.
addSharedObjectWithoutCheck(e, object, sid) ==
    [e EXCEPT
        !.sharedObjectTable = Put(@, sid, object),
        !.sharedObjects = Append(@, object),
        !.transferComponents =
            Put(@, object, [createTransferComponent(e, object) EXCEPT !.sid = sid])]

addSharedObject(e, object, sid) ==
    IF Has(e.sharedObjectTable, sid) THEN e
    ELSE [e EXCEPT
             !.sharedObjectTable = Put(@, sid, object),
             !.sharedObjects = Append(@, object),
             !.transferComponents =
                 Put(@, object, [createTransferComponent(e, object) EXCEPT !.sid = sid])]

\* removeSharedObject announcing the removal to the connected peers.
removeSharedObjectAnnouncing(e, sid) ==
    IF ~Has(e.sharedObjectTable, sid) THEN e
    ELSE LET object == e.sharedObjectTable[sid]
             r == [e EXCEPT
                      !.sharedObjectTable = Delete(@, sid),
                      !.sharedObjects = removeObjectFromArray(@, object)]
         IN  IF connectionNum(r) > 0 THEN broadcastRemoveObjectRequest(r, object) ELSE r

removeSharedObject(e, sid) ==
    IF ~Has(e.sharedObjectTable, sid) THEN e
    ELSE LET object == e.sharedObjectTable[sid]
         IN  [e EXCEPT
                 !.sharedObjectTable = Delete(@, sid),
                 !.sharedObjects = removeObjectFromArray(@, object)]

\* The inner loop of sync over one array, from index j on.
RECURSIVE syncLoop(_, _, _, _)
syncLoop(e, array, j, force) ==
    IF j > Len(array) THEN e
    ELSE LET object == array[j]
         IN  IF ~Has(e.transferComponents, object) THEN Throw(e, "TypeError")
             ELSE IF force \/ checkUpdate(e, object)
             THEN LET s == serialize(e, object)
                  IN  syncLoop([s EXCEPT !.buffer.list =
                                   Append(@, s.transferComponents[object])],
                               array, j + 1, force)
             ELSE syncLoop(e, array, j + 1, force)

sync(e, force, onlyLocal) ==
    LET c == [e EXCEPT !.buffer =
                 [id |-> e.id, did |-> Null, type |-> TRANSFER_TYPE_SYNC, list |-> << >>]]
        l == syncLoop(c, c.localObjects, 1, force)
        s == IF onlyLocal \/ l.thrown # "none" THEN l
             ELSE syncLoop(l, l.sharedObjects, 1, force)
    IN  IF s.thrown # "none" THEN s
        ELSE IF Len(s.buffer.list) > 0 THEN broadcast(s, s.buffer)
        ELSE s

sendUserData(e, destId, data) ==
    LET b == buildUserDataComponent(e, e.id, data)
        c == [b EXCEPT !.buffer.did = destId]
    IN  send(c, destId, c.buffer)

\* broadcastUserData without the reset of component.did.
broadcastUserDataKeepingDid(e, data) ==
    LET b == buildUserDataComponent(e, e.id, data)
    IN  broadcast(b, b.buffer)

broadcastUserData(e, data) ==
    LET b == buildUserDataComponent(e, e.id, data)
        c == [b EXCEPT !.buffer.did = Null]
    IN  broadcast(c, c.buffer)

\* ------------------------------------------------------------ handling of requests

\* handleSyncLoop without the serialize of a shared object after deserialize.
RECURSIVE handleSyncLoopWithoutSerialize(_, _, _)
handleSyncLoopWithoutSerialize(e, component, i) ==
    IF i > Len(component.list) \/ e.thrown # "none" THEN e
    ELSE LET record == component.list[i]
             destId == component.id
             known == IF record.sid # Undef THEN Has(e.sharedObjectTable, record.sid)
                      ELSE /\ Has(e.remoteObjectTable, destId)
                           /\ Has(e.remoteObjectTable[destId], record.id)
             object == IF record.sid # Undef THEN e.sharedObjectTable[record.sid]
                       ELSE e.remoteObjectTable[destId][record.id]
         IN  IF ~known THEN handleSyncLoopWithoutSerialize(e, component, i + 1)
             ELSE handleSyncLoopWithoutSerialize(deserialize(e, object, record),
                                                 component, i + 1)

\* handleSyncLoop looking a remote object up in the table of any peer.
RECURSIVE handleSyncLoopAnyPeer(_, _, _)
handleSyncLoopAnyPeer(e, component, i) ==
    IF i > Len(component.list) \/ e.thrown # "none" THEN e
    ELSE LET record == component.list[i]
             holders == {q \in DOMAIN e.remoteObjectTable :
                            Has(e.remoteObjectTable[q], record.id)}
             known == IF record.sid # Undef THEN Has(e.sharedObjectTable, record.sid)
                      ELSE holders # {}
             object == IF record.sid # Undef THEN e.sharedObjectTable[record.sid]
                       ELSE e.remoteObjectTable[CHOOSE q \in holders : TRUE][record.id]
         IN  IF ~known THEN handleSyncLoopAnyPeer(e, component, i + 1)
             ELSE LET d == deserialize(e, object, record)
                      s == IF record.sid # Undef THEN serialize(d, object) ELSE d
                  IN  handleSyncLoopAnyPeer(s, component, i + 1)

\* handleSyncLoop leaving the loop at a record without a target.
RECURSIVE handleSyncLoopBreakOnUnknown(_, _, _)
handleSyncLoopBreakOnUnknown(e, component, i) ==
    IF i > Len(component.list) \/ e.thrown # "none" THEN e
    ELSE LET record == component.list[i]
             destId == component.id
             known == IF record.sid # Undef THEN Has(e.sharedObjectTable, record.sid)
                      ELSE /\ Has(e.remoteObjectTable, destId)
                           /\ Has(e.remoteObjectTable[destId], record.id)
             object == IF record.sid # Undef THEN e.sharedObjectTable[record.sid]
                       ELSE e.remoteObjectTable[destId][record.id]
         IN  IF ~known THEN e
             ELSE LET d == deserialize(e, object, record)
                      s == IF record.sid # Undef THEN serialize(d, object) ELSE d
                  IN  handleSyncLoopBreakOnUnknown(s, component, i + 1)

RECURSIVE handleSyncLoop(_, _, _)
handleSyncLoop(e, component, i) ==
    IF i > Len(component.list) \/ e.thrown # "none" THEN e
    ELSE LET record == component.list[i]
             destId == component.id
             known == IF record.sid # Undef THEN Has(e.sharedObjectTable, record.sid)
                      ELSE /\ Has(e.remoteObjectTable, destId)
                           /\ Has(e.remoteObjectTable[destId], record.id)
             object == IF record.sid # Undef THEN e.sharedObjectTable[record.sid]
                       ELSE e.remoteObjectTable[destId][record.id]
         IN  IF ~known THEN handleSyncLoop(e, component, i + 1)
             ELSE LET d == deserialize(e, object, record)
                      s == IF record.sid # Undef THEN serialize(d, object) ELSE d
                  IN  handleSyncLoop(s, component, i + 1)

handleSyncRequest(e, component) == handleSyncLoop(e, component, 1)

\* handleAddLoop without the test of the peer's remote table.
RECURSIVE handleAddLoopWithoutCheck(_, _, _)
handleAddLoopWithoutCheck(e, component, i) ==
    IF i > Len(component.list) THEN e
    ELSE LET record == component.list[i]
         IN  handleAddLoopWithoutCheck(
                 notify(e, <<"add", component.id, record.id, record.info>>), component, i + 1)

RECURSIVE handleAddLoop(_, _, _)
handleAddLoop(e, component, i) ==
    IF i > Len(component.list) THEN e
    ELSE LET destId == component.id
             record == component.list[i]
         IN  IF Has(e.remoteObjectTable, destId) /\ Has(e.remoteObjectTable[destId], record.id)
             THEN handleAddLoop(e, component, i + 1)
             ELSE handleAddLoop(notify(e, <<"add", destId, record.id, record.info>>),
                                component, i + 1)

handleAddRequest(e, component) == handleAddLoop(e, component, 1)

\* The loop body reads the undeclared name objests: the first record raises a
\* ReferenceError, whatever it is.
handleRemoveRequest(e, component) ==
    IF ~Has(e.remoteObjectTable, component.id) THEN e
    ELSE IF Len(component.list) > 0 THEN Throw(e, "ReferenceError")
    ELSE e

\* ------------------------------------------------------------ client event listeners

\* onConnect with the flag handed to sync as it comes.
onConnectFlagNotNegated(e, peer, fromRemote) ==
    LET c == notify(e, <<"connect", peer>>)
        a == sendAddObjectsRequest(c, peer)
    IN  sync(a, TRUE, fromRemote)

\* onConnect with the forced sync ahead of the addition request.
onConnectSyncFirst(e, peer, fromRemote) ==
    LET c == notify(e, <<"connect", peer>>)
        s == sync(c, TRUE, ~fromRemote)
    IN  IF s.thrown # "none" THEN s ELSE sendAddObjectsRequest(s, peer)

onConnect(e, peer, fromRemote) ==
    LET c == notify(e, <<"connect", peer>>)
        a == sendAddObjectsRequest(c, peer)
    IN  sync(a, TRUE, ~fromRemote)

RECURSIVE removeRemoteObjects(_, _, _)
removeRemoteObjects(e, peer, keys) ==
    IF keys = {} THEN e
    ELSE LET k == CHOOSE x \in keys : TRUE
         IN  removeRemoteObjects(removeRemoteObject(e, peer, k), peer, keys \ {k})

\* onDisconnect without the loop over the peer's objects.
onDisconnectWithoutRemoval(e, peer) ==
    LET d == notify(e, <<"disconnect", peer>>)
    IN  [d EXCEPT !.remoteObjectTable = Delete(@, peer)]

\* onDisconnect without delete self.remoteObjectTable[ id ] and its loop.
onDisconnectWithoutCleanup(e, peer) == notify(e, <<"disconnect", peer>>)

onDisconnect(e, peer) ==
    LET d == notify(e, <<"disconnect", peer>>)
    IN  IF ~Has(d.remoteObjectTable, peer) THEN d
        ELSE LET r == removeRemoteObjects(d, peer, DOMAIN d.remoteObjectTable[peer])
             IN  [r EXCEPT !.remoteObjectTable = Delete(@, peer)]

\* onReceive without the test of component.did.
onReceiveWithoutFilter(e, component) ==
    LET h == CASE component.type = TRANSFER_TYPE_SYNC -> handleSyncRequest(e, component)
               [] component.type = TRANSFER_TYPE_ADD -> handleAddRequest(e, component)
               [] component.type = TRANSFER_TYPE_REMOVE -> handleRemoveRequest(e, component)
               [] component.type = TRANSFER_TYPE_USER_DATA ->
                      notify(e, <<"receive_user_data", component.list[1]>>)
               [] OTHER -> e
    IN  IF h.thrown # "none" THEN h ELSE notify(h, <<"receive", component>>)

onReceive(e, component) ==
    IF component.did # Undef /\ component.did # Null /\ e.id # component.did THEN e
    ELSE LET h == CASE component.type = TRANSFER_TYPE_SYNC -> handleSyncRequest(e, component)
                    [] component.type = TRANSFER_TYPE_ADD -> handleAddRequest(e, component)
                    [] component.type = TRANSFER_TYPE_REMOVE -> handleRemoveRequest(e, component)
                    [] component.type = TRANSFER_TYPE_USER_DATA ->
                           notify(e, <<"receive_user_data", component.list[1]>>)
                    [] OTHER -> e
         IN  IF h.thrown # "none" THEN h ELSE notify(h, <<"receive", component>>)

\* ------------------------------------------------------------ NetworkClient, protected

\* addConnection without the test id === this.id.
addConnectionWithoutSelfCheck(e, peer) ==
    IF peer \in e.connectionTable THEN e
    ELSE [e EXCEPT !.connections = Append(@, peer), !.connectionTable = @ \cup {peer}]

\* A connection object is modelled by its .peer, the remote peer id.
addConnection(e, peer) ==
    IF peer = e.id \/ peer \in e.connectionTable THEN e
    ELSE [e EXCEPT !.connections = Append(@, peer), !.connectionTable = @ \cup {peer}]

\* What addConnection returns.
addConnectionReturns(e, peer) == ~(peer = e.id \/ peer \in e.connectionTable)

\* The compaction loop of removeConnection.
RECURSIVE removeConnectionLoop(_, _, _, _, _)
removeConnectionLoop(array, peer, i, readIndex, writeIndex) ==
    IF i >= Len(array) THEN SubSeq(array, 1, writeIndex)
    ELSE IF array[readIndex + 1] # peer
         THEN removeConnectionLoop([array EXCEPT ![writeIndex + 1] = array[readIndex + 1]],
                                   peer, i + 1, readIndex + 1, writeIndex + 1)
         ELSE removeConnectionLoop(array, peer, i + 1, readIndex + 1, writeIndex)

\* removeConnection without the compaction of the array.
removeConnectionWithoutCompaction(e, peer) ==
    IF peer = e.id \/ peer \notin e.connectionTable THEN e
    ELSE [e EXCEPT !.connectionTable = @ \ {peer}]

removeConnection(e, peer) ==
    IF peer = e.id \/ peer \notin e.connectionTable THEN e
    ELSE [e EXCEPT !.connectionTable = @ \ {peer},
                   !.connections = removeConnectionLoop(@, peer, 0, 0, 0)]

\* What removeConnection returns.
removeConnectionReturns(e, peer) == ~(peer = e.id \/ peer \notin e.connectionTable)

\* ------------------------------------------------------------ inputs

\* The states an application gives an object: two of the sixteen matrix
\* elements, and the morph influence of the mesh.  <<1, 0>> differs from
\* <<0, 0>> by less than float32 resolution.
ObjectStates(o) ==
    IF HasMorph(o)
    THEN {[matrix |-> <<0, 0>>, morphTargetInfluences |-> <<0>>],
          [matrix |-> <<0, 0>>, morphTargetInfluences |-> <<2>>],
          [matrix |-> <<0, 2>>, morphTargetInfluences |-> <<0>>]}
    ELSE {[matrix |-> <<0, 0>>, morphTargetInfluences |-> << >>],
          [matrix |-> <<1, 0>>, morphTargetInfluences |-> << >>],
          [matrix |-> <<0, 2>>, morphTargetInfluences |-> << >>]}

NewObject(o) == [matrix |-> <<0, 0>>, morphTargetInfluences |-> IF HasMorph(o) THEN <<0>> ELSE << >>]

\* SYNC records a remote peer may send for a shared object.
SharedSyncRecords ==
    [id : {"r1"}, sid : SharedIds,
     matrix : {<<1, 0>>, <<0, 2>>}, morphTargetInfluences : {<< >>, <<2>>}]

\* ------------------------------------------------------------ initial state

Constructed ==
    /\ id = [p \in Engines |-> p]
    /\ localObjects = [p \in Engines |-> << >>]
    /\ localObjectTable = [p \in Engines |-> EmptyTable]
    /\ localObjectInfos = [p \in Engines |-> EmptyTable]
    /\ remoteObjectTable = [p \in Engines |-> EmptyTable]
    /\ sharedObjects = [p \in Engines |-> << >>]
    /\ sharedObjectTable = [p \in Engines |-> EmptyTable]
    /\ transferComponents = [p \in Engines |-> EmptyTable]
    /\ connections = [p \in Engines |-> << >>]
    /\ connectionTable = [p \in Engines |-> {}]
    /\ objects = [p \in Engines |-> [o \in Objs |-> NewObject(o)]]
    /\ buffer = [p \in Engines |-> TRANSFER_COMPONENT]
    /\ sent = [p \in Engines |-> << >>]
    /\ notified = [p \in Engines |-> << >>]
    /\ trace = [p \in Engines |-> << >>]
    /\ thrown = [p \in Engines |-> "none"]
    /\ op = [p \in Engines |-> <<"new">>]
    /\ actor = "A"

Init == Constructed /\ left = MaxOps

InitRemote == Constructed /\ left = MaxRemoteOps

InitPair == Constructed /\ left = MaxPairOps

InitClient == Constructed /\ left = MaxClientOps

InitReceive == Constructed /\ left = MaxReceiveOps

InitWire == Constructed /\ left = MaxWireOps

\* ------------------------------------------------------------ actions

\* The application changes an object's transform between two calls.
Mutate(p, o, state) ==
    /\ left > 0
    /\ objects[p][o] # state
    /\ Commit(p, [Enter(p) EXCEPT !.objects[o] = state], <<"mutate", o>>)

AddLocalObject(p, o, info) ==
    /\ left > 0
    /\ Commit(p, addLocalObject(Enter(p), o, info), <<"addLocalObject", o, info>>)

RemoveLocalObject(p, o) ==
    /\ left > 0
    /\ Commit(p, removeLocalObject(Enter(p), o), <<"removeLocalObject", o>>)

AddRemoteObject(p, destId, objectId, o) ==
    /\ left > 0
    /\ Commit(p, addRemoteObject(Enter(p), destId, objectId, o),
              <<"addRemoteObject", destId, objectId, o>>)

AddSharedObject(p, o, sid) ==
    /\ left > 0
    /\ Commit(p, addSharedObject(Enter(p), o, sid), <<"addSharedObject", o, sid>>)

RemoveSharedObject(p, sid) ==
    /\ left > 0
    /\ Commit(p, removeSharedObject(Enter(p), sid), <<"removeSharedObject", sid>>)

Sync(p, force, onlyLocal) ==
    /\ left > 0
    /\ Commit(p, sync(Enter(p), force, onlyLocal), <<"sync", force, onlyLocal>>)

\* A concrete client registers the new connection and, when addConnection
\* accepted it, invokes its 'connect' listeners.
Connect(p, peer, fromRemote) ==
    /\ left > 0
    /\ addConnection(Engine(p), peer) # Engine(p)
    /\ Commit(p, onConnect(addConnection(Enter(p), peer), peer, fromRemote),
              <<"connect", peer, fromRemote>>)

\* A concrete client drops the connection and invokes its 'disconnect' listeners.
Disconnect(p, peer) ==
    /\ left > 0
    /\ removeConnection(Engine(p), peer) # Engine(p)
    /\ Commit(p, onDisconnect(removeConnection(Enter(p), peer), peer), <<"disconnect", peer>>)

\* A component arrives over the connection to its sender.
Receive(p, component) ==
    /\ left > 0
    /\ component.id \in connectionTable[p]
    /\ Commit(p, onReceive(Enter(p), component), <<"receive", component>>)

SendUserData(p, destId, data) ==
    /\ left > 0
    /\ Commit(p, sendUserData(Enter(p), destId, data), <<"sendUserData", destId, data>>)

BroadcastUserData(p, data) ==
    /\ left > 0
    /\ Commit(p, broadcastUserData(Enter(p), data), <<"broadcastUserData", data>>)

\* ------------------------------------------------------------ specifications

\* Peer A's local and shared registries; peer B is the network.
Next ==
    \/ \E o \in Objs : \E state \in ObjectStates(o) : Mutate("A", o, state)
    \/ \E o \in Objs, info \in Infos : AddLocalObject("A", o, info)
    \/ \E o \in Objs : RemoveLocalObject("A", o)
    \/ \E o \in Objs, sid \in SharedIds : AddSharedObject("A", o, sid)
    \/ \E sid \in SharedIds : RemoveSharedObject("A", sid)
    \/ \E force \in BOOLEAN, onlyLocal \in BOOLEAN : Sync("A", force, onlyLocal)
    \/ \E fromRemote \in BOOLEAN : Connect("A", "B", fromRemote)
    \/ Disconnect("A", "B")
    \/ \E r \in SharedSyncRecords :
           Receive("A", [id |-> "B", did |-> Null, type |-> TRANSFER_TYPE_SYNC, list |-> <<r>>])

Spec == Init /\ [][Next]_vars

\* Components the remote peers B and C may send to peer A.
RemoteIds == {"r1", "r2"}

AddLists == {<<[id |-> "r1", info |-> "i1"]>>,
             <<[id |-> "r1", info |-> "i1"], [id |-> "r2", info |-> "i2"]>>}

RemoveLists == {<< >>, <<[id |-> "r1"]>>, <<[id |-> "r2"]>>, <<[id |-> "r1"], [id |-> "r2"]>>}

RemoteSyncRecord(rid) ==
    [id |-> rid, sid |-> Undef, matrix |-> <<0, 2>>, morphTargetInfluences |-> <<2>>]

SyncLists == {<<RemoteSyncRecord("r1")>>, <<RemoteSyncRecord("r2"), RemoteSyncRecord("r1")>>}

RemoteComponents ==
    [id : {"B", "C"}, did : {Null}, type : {TRANSFER_TYPE_ADD}, list : AddLists]
    \cup [id : {"B", "C"}, did : {Null}, type : {TRANSFER_TYPE_REMOVE}, list : RemoveLists]
    \cup [id : {"B", "C"}, did : {Null}, type : {TRANSFER_TYPE_SYNC}, list : SyncLists]

\* Peer A's remote table; peers B and C are the network.
NextRemote ==
    \/ \E peer \in {"B", "C"}, fromRemote \in BOOLEAN : Connect("A", peer, fromRemote)
    \/ \E peer \in {"B", "C"} : Disconnect("A", peer)
    \/ \E peer \in {"B", "C"}, objectId \in RemoteIds, o \in Objs :
           AddRemoteObject("A", peer, objectId, o)
    \/ \E component \in RemoteComponents : Receive("A", component)

SpecRemote == InitRemote /\ [][NextRemote]_vars

\* What peer p's last handler handed to its client arrives at peer q.
Deliver(p, q) ==
    \E i \in 1..Len(sent[p]) :
        /\ sent[p][i].to \in {Null, q}
        /\ q \in connectionTable[p]
        /\ Receive(q, sent[p][i].component)

\* Peer A owns objects, peer B mirrors them.
NextPair ==
    \/ \E o \in Objs : AddLocalObject("A", o, "i1")
    \/ \E o \in Objs : RemoveLocalObject("A", o)
    \/ \E m \in {<<0, 0>>, <<0, 2>>} :
           Mutate("A", "o1", [matrix |-> m, morphTargetInfluences |-> << >>])
    \/ Sync("A", FALSE, FALSE)
    \/ Connect("A", "B", TRUE)
    \/ Connect("B", "A", FALSE)
    \/ \E o \in Objs : AddRemoteObject("B", "A", o, o)
    \/ Deliver("A", "B")

SpecPair == InitPair /\ [][NextPair]_vars

\* A concrete client calls addConnection of its NetworkClient.
AddConnection(p, peer) ==
    /\ left > 0
    /\ Commit(p, addConnection(Enter(p), peer),
              <<"addConnection", peer, addConnectionReturns(Engine(p), peer)>>)

\* A concrete client calls removeConnection of its NetworkClient.
RemoveConnection(p, peer) ==
    /\ left > 0
    /\ Commit(p, removeConnection(Enter(p), peer),
              <<"removeConnection", peer, removeConnectionReturns(Engine(p), peer)>>)

\* The peer ids a client of peer A may be called with; A is its own id.
ClientPeers == {"A", "B", "C", "D"}

\* The connection registry of peer A's client.
NextClient ==
    \/ \E peer \in ClientPeers : AddConnection("A", peer)
    \/ \E peer \in ClientPeers : RemoveConnection("A", peer)

SpecClient == InitClient /\ [][NextClient]_vars

\* A record of a SYNC component, for a remote object (sid undefined) or a
\* shared one.
InboundSyncRecord(rid, sid, matrix) ==
    [id |-> rid, sid |-> sid, matrix |-> matrix, morphTargetInfluences |-> <<2>>]

\* Lists of SYNC components peer B may send: records for objects that peer A
\* may or may not have a target for; the last has the uuid of an object of
\* peer A.
InboundSyncLists ==
    {<<InboundSyncRecord("r1", "s2", <<0, 2>>), InboundSyncRecord("r1", "s1", <<2, 0>>)>>,
     <<InboundSyncRecord("r2", Undef, <<0, 2>>), InboundSyncRecord("r1", Undef, <<2, 0>>)>>,
     <<InboundSyncRecord("r1", "s1", <<0, 2>>), InboundSyncRecord("r1", Undef, <<2, 0>>)>>,
     <<InboundSyncRecord("r1", Undef, <<0, 2>>)>>,
     <<InboundSyncRecord("r1", "s2", <<0, 2>>)>>,
     <<InboundSyncRecord("o1", Undef, <<0, 2>>)>>}

\* A type no case of the 'receive' listener names.
UnknownType == 9

\* component.did of an inbound component: absent, null, this peer, another peer.
InboundDids == {Undef, Null, "A", "C"}

\* Lists of one component of every type.
InboundLists(type) ==
    CASE type = TRANSFER_TYPE_SYNC -> InboundSyncLists
      [] type = TRANSFER_TYPE_ADD -> AddLists
      [] type = TRANSFER_TYPE_REMOVE -> RemoveLists
      [] type = TRANSFER_TYPE_USER_DATA -> {<<"d1">>}
      [] OTHER -> {<< >>}

\* One list of every type, for the components that carry a did.
AddressedList(type) ==
    CASE type = TRANSFER_TYPE_SYNC -> <<InboundSyncRecord("r1", Undef, <<0, 2>>)>>
      [] type = TRANSFER_TYPE_ADD -> <<[id |-> "r1", info |-> "i1"]>>
      [] type = TRANSFER_TYPE_REMOVE -> <<[id |-> "r1"]>>
      [] type = TRANSFER_TYPE_USER_DATA -> <<"d1">>
      [] OTHER -> << >>

InboundTypes ==
    {TRANSFER_TYPE_SYNC, TRANSFER_TYPE_ADD, TRANSFER_TYPE_REMOVE, TRANSFER_TYPE_USER_DATA,
     UnknownType}

\* The components peer A's 'receive' listener is called with, of every type:
\* every list with did null, and one list of each type with every did.
InboundComponents ==
    UNION {[id : {"B"}, did : {Null}, type : {t}, list : InboundLists(t)] : t \in InboundTypes}
    \cup UNION {[id : {"B"}, did : InboundDids, type : {t}, list : {AddressedList(t)}] :
                   t \in InboundTypes}

\* Peer A receives components of every type and destination from peer B.
NextReceive ==
    \/ Connect("A", "B", TRUE)
    \/ \E o \in Objs : AddRemoteObject("A", "B", "r1", o)
    \/ AddRemoteObject("A", "C", "r1", "o2")
    \/ \E o \in Objs : AddSharedObject("A", o, "s1")
    \/ AddLocalObject("A", "o1", "i1")
    \/ RemoveLocalObject("A", "o1")
    \/ \E component \in InboundComponents : Receive("A", component)

SpecReceive == InitReceive /\ [][NextReceive]_vars

\* User data the application hands to sendUserData and broadcastUserData.
UserData == {"d1", "d2"}

\* What peer A hands to its client, one message after the other; peer B
\* receives what is sent to it.
NextWire ==
    \/ AddLocalObject("A", "o1", "i1")
    \/ RemoveLocalObject("A", "o1")
    \/ Sync("A", TRUE, FALSE)
    \/ \E fromRemote \in BOOLEAN : Connect("A", "B", fromRemote)
    \/ \E destId \in {"B", "C"}, data \in UserData : SendUserData("A", destId, data)
    \/ \E data \in UserData : BroadcastUserData("A", data)
    \/ Connect("B", "A", FALSE)
    \/ Deliver("A", "B")

SpecWire == InitWire /\ [][NextWire]_vars

\* ------------------------------------------------------------ properties

\* The notifications of kind type that peer p's last handler made.
Notified(p, type) == {i \in 1..Len(notified[p]) : notified[p][i][1] = type}

\* The uuids of the objects mirrored under peer at p.
MirroredIds(p, peer) ==
    IF Has(remoteObjectTable[p], peer) THEN DOMAIN remoteObjectTable[p][peer] ELSE {}

\* C1. Disconnect cleanup: when a peer disconnects, every object mirrored
\* under it at that moment gets exactly one 'remove' notification (peer,
\* object uuid, mirror), no other 'remove' is made, and the peer's remote
\* table is gone afterwards; no REMOVE component is needed for it, and a peer
\* without mirrored objects gets no 'remove' at all.
DisconnectCleanup ==
    [][\A peer \in {"B", "C"} :
          (op'["A"][1] = "disconnect" /\ op'["A"][2] = peer) =>
              /\ thrown'["A"] = "none"
              /\ \A k \in MirroredIds("A", peer) :
                     Cardinality({i \in 1..Len(notified'["A"]) :
                         /\ notified'["A"][i][1] = "remove"
                         /\ notified'["A"][i] =
                                <<"remove", peer, k, remoteObjectTable["A"][peer][k]>>}) = 1
              /\ Cardinality({i \in 1..Len(notified'["A"]) : notified'["A"][i][1] = "remove"})
                     = Cardinality(MirroredIds("A", peer))
              /\ ~Has(remoteObjectTable'["A"], peer)]_vars

\* A disconnect of a peer with two mirrored objects has run.
DisconnectCleanupWitness ==
    /\ op["A"] = <<"disconnect", "B">>
    /\ Cardinality(Notified("A", "remove")) = 2
    /\ ~Has(remoteObjectTable["A"], "B")

\* C2. Applying a REMOVE component from a peer: every record whose uuid is in
\* the peer's remote table has its entry deleted and gets a 'remove'
\* notification (peer, uuid, mirror); the other records are skipped without a
\* notification; the handling ends without an error.
RemoveRequestApplied ==
    [][\A peer \in {"B", "C"} :
          (/\ op'["A"][1] = "receive"
           /\ op'["A"][2].type = TRANSFER_TYPE_REMOVE
           /\ op'["A"][2].id = peer) =>
              LET list == op'["A"][2].list
                  present == {list[i].id : i \in 1..Len(list)} \cap MirroredIds("A", peer)
                  removes == {i \in 1..Len(notified'["A"]) : notified'["A"][i][1] = "remove"}
              IN  /\ thrown'["A"] = "none"
                  /\ {k \in RemoteIds : k \in MirroredIds("A", peer)} \ present
                         = {k \in RemoteIds :
                               /\ Has(remoteObjectTable'["A"], peer)
                               /\ Has(remoteObjectTable'["A"][peer], k)}
                  /\ Cardinality(removes) = Cardinality(present)
                  /\ \A k \in present : \E i \in removes :
                         notified'["A"][i] = <<"remove", peer, k, remoteObjectTable["A"][peer][k]>>]_vars

\* C10, as claimed. No orphaned remote entries: every peer with a mirrored
\* object in the remote table is a connected peer, in every reachable state.
NoOrphanedRemoteEntries ==
    \A peer \in {"B", "C"} : MirroredIds("A", peer) # {} => peer \in connectionTable["A"]

\* C10, amended. Connecting, disconnecting and every inbound component keep
\* the remote table free of entries of unconnected peers, and so does
\* addRemoteObject for a connected peer; addRemoteObject makes no connection
\* check, so only a call of it for a peer that is not connected leaves an
\* entry without a connection.
OrphansOnlyByAddRemoteObject ==
    [][(/\ NoOrphanedRemoteEntries
        /\ ~(/\ op'["A"][1] = "addRemoteObject"
             /\ op'["A"][2] \notin connectionTable["A"]))
       => NoOrphanedRemoteEntries']_vars

\* A disconnect has removed the mirrored objects of one peer while another
\* peer stays connected with its own.
OrphansWitness ==
    /\ op["A"] = <<"disconnect", "B">>
    /\ Notified("A", "remove") # {}
    /\ "C" \in connectionTable["A"]
    /\ MirroredIds("A", "C") # {}
    /\ NoOrphanedRemoteEntries

\* The objects bound in the shared table of peer p.
SharedBound(p) == {sharedObjectTable[p][sid] : sid \in DOMAIN sharedObjectTable[p]}

\* C3. Deregistration removes exactly the target: after removeLocalObject of a
\* registered object (removeSharedObject of a bound shared id) the array that
\* sync iterates holds the objects it held before except the removed one, in
\* their order.
RemovalRemovesExactlyTheTarget ==
    [][/\ \A o \in Objs :
              (/\ op'["A"][1] = "removeLocalObject"
               /\ op'["A"][2] = o
               /\ Has(localObjectTable["A"], o)) =>
                  localObjects'["A"] = SelectSeq(localObjects["A"], LAMBDA x : x # o)
       /\ \A sid \in SharedIds :
              (/\ op'["A"][1] = "removeSharedObject"
               /\ op'["A"][2] = sid
               /\ Has(sharedObjectTable["A"], sid)) =>
                  sharedObjects'["A"] =
                      SelectSeq(sharedObjects["A"], LAMBDA x : x # sharedObjectTable["A"][sid])]_vars

\* C4. Snapshot lifecycle: an object has a transfer component exactly when it
\* is registered as a local or as a shared object, and every object that sync
\* scans has one.
SnapshotLifecycle ==
    /\ \A o \in Objs :
           Has(transferComponents["A"], o)
               <=> (Has(localObjectTable["A"], o) \/ o \in SharedBound("A"))
    /\ \A i \in 1..Len(localObjects["A"]) : Has(transferComponents["A"], localObjects["A"][i])
    /\ \A i \in 1..Len(sharedObjects["A"]) : Has(transferComponents["A"], sharedObjects["A"][i])

\* What a forced scan of array leaves in the list: the component of every
\* object up to the first one without a component, where the scan ends.
RECURSIVE Scanned(_, _)
Scanned(p, array) ==
    IF array = << >> \/ ~Has(transferComponents[p], Head(array)) THEN << >>
    ELSE <<transferComponents[p][Head(array)]>> \o Scanned(p, Tail(array))

SyncsSent(p) == {i \in 1..Len(sent[p]) : sent[p][i].component.type = TRANSFER_TYPE_SYNC}

\* One forced sync ran in the handler, over array: at most one SYNC component
\* was handed to the client, a broadcast of the list, and exactly one when the
\* scan came to its end with a record.
OneForcedSync(p, array) ==
    /\ buffer[p].type = TRANSFER_TYPE_SYNC
    /\ buffer[p].list = Scanned(p, array)
    /\ Cardinality(SyncsSent(p)) <= 1
    /\ \A i \in SyncsSent(p) :
           /\ sent[p][i].how = "broadcast"
           /\ sent[p][i].component.did = Null
           /\ sent[p][i].component.list = buffer[p].list
    /\ SyncsSent(p) # {} <=> (thrown[p] = "none" /\ buffer[p].list # << >>)

CatalogOnConnect ==
    op["A"][1] = "connect" =>
        LET adds == {i \in 1..Len(sent["A"]) : sent["A"][i].component.type = TRANSFER_TYPE_ADD}
        IN  /\ Cardinality(adds) = 1
            /\ \A i \in adds :
                   LET list == sent["A"][i].component.list
                   IN  /\ sent["A"][i].how = "send"
                       /\ sent["A"][i].to = op["A"][2]
                       /\ sent["A"][i].component.did = op["A"][2]
                       /\ Len(list) = Cardinality(DOMAIN localObjectTable["A"])
                       /\ {list[j].id : j \in 1..Len(list)} = DOMAIN localObjectTable["A"]
                       /\ \A j \in 1..Len(list) :
                              list[j].info = Get(localObjectInfos["A"], list[j].id)

\* The live state of object o of peer p differs from its transfer component
\* at float32 precision.
Differs(p, o) ==
    \/ Float32Seq(objects[p][o].matrix) # transferComponents[p][o].matrix
    \/ /\ HasMorph(o)
       /\ Float32Seq(objects[p][o].morphTargetInfluences)
              # transferComponents[p][o].morphTargetInfluences

\* The records of the SYNC components peer p's last handler handed over.
RecordsSent(p) ==
    UNION {{sent[p][i].component.list[j] : j \in 1..Len(sent[p][i].component.list)} :
               i \in SyncsSent(p)}

\* C7. Propagation within one tick: peers A and B are connected and B mirrors
\* A's local object o.  When o's state has changed, the next sync of A
\* broadcasts a SYNC record with o's state, and when B handles that component
\* its mirror has the state A's object has.
PropagationWithinOneTick ==
    [][\A o \in Objs :
          /\ (/\ actor' = "A"
              /\ op'["A"][1] = "sync"
              /\ "B" \in connectionTable["A"]
              /\ "A" \in connectionTable["B"]
              /\ o \in MirroredIds("B", "A")
              /\ Has(localObjectTable["A"], o)
              /\ Has(transferComponents["A"], o)
              /\ Differs("A", o)) =>
                 \E r \in RecordsSent("A")' :
                     /\ r.id = o
                     /\ r.matrix = Float32Seq(objects["A"][o].matrix)
                     /\ r.morphTargetInfluences
                            = Float32Seq(objects["A"][o].morphTargetInfluences)
          /\ (/\ actor' = "B"
              /\ op'["B"][1] = "receive"
              /\ op'["B"][2].type = TRANSFER_TYPE_SYNC
              /\ op'["B"][2].id = "A"
              /\ o \in MirroredIds("B", "A")
              /\ \E i \in 1..Len(op'["B"][2].list) : op'["B"][2].list[i].id = o) =>
                 LET mirror == remoteObjectTable["B"]["A"][o]
                 IN  /\ objects'["B"][mirror].matrix = Float32Seq(objects["A"][o].matrix)
                     /\ HasMorph(o) /\ HasMorph(mirror) =>
                            objects'["B"][mirror].morphTargetInfluences
                                = Float32Seq(objects["A"][o].morphTargetInfluences)]_vars

\* C8. Delta correctness: the records of sync( false, onlyLocal ) are those of
\* the registered local objects (and, unless onlyLocal, shared objects) whose
\* live state differs from their transfer component, and of no other; after
\* the call the component of every object in the list equals its live state.
DeltaCorrectness ==
    [][(op'["A"][1] = "sync" /\ op'["A"][2] = FALSE) =>
          LET scope == (DOMAIN localObjectTable["A"])
                           \cup (IF op'["A"][3] THEN {} ELSE SharedBound("A"))
          IN  /\ \A o \in scope :
                     Has(transferComponents["A"], o) =>
                         ((\E r \in RecordsSent("A")' : r.id = o) <=> Differs("A", o))
              /\ \A r \in RecordsSent("A")' : r.id \in scope /\ ~Differs("A", r.id)']_vars

\* C9. Echo suppression: a sync( false ) that follows the handling of a SYNC
\* component at once has no record for a shared object that a record of the
\* component was applied to.
EchoSuppression ==
    [][(/\ op["A"][1] = "receive"
        /\ op["A"][2].type = TRANSFER_TYPE_SYNC
        /\ op'["A"][1] = "sync"
        /\ op'["A"][2] = FALSE) =>
           \A i \in 1..Len(op["A"][2].list) :
               LET record == op["A"][2].list[i]
               IN  (record.sid # Undef /\ Has(sharedObjectTable["A"], record.sid)) =>
                       \A r \in RecordsSent("A")' : r.id # sharedObjectTable["A"][record.sid]]_vars

\* A SYNC record has changed a shared object, and a sync( false ) that found
\* nothing to send has followed.
EchoSuppressionWitness ==
    /\ op["A"][1] = "sync"
    /\ op["A"][2] = FALSE
    /\ thrown["A"] = "none"
    /\ sent["A"] = << >>
    /\ \E sid \in DOMAIN sharedObjectTable["A"] :
           LET o == sharedObjectTable["A"][sid]
           IN  /\ objects["A"][o].matrix = <<0, 2>>
               /\ Has(transferComponents["A"], o)
               /\ transferComponents["A"][o].matrix = <<0, 2>>
               /\ sharedObjects["A"] = <<o>>
               /\ localObjects["A"] = << >>

\* Peer p's registries, tables and objects are what they were before the step.
Untouched(p) ==
    /\ localObjects'[p] = localObjects[p]
    /\ localObjectTable'[p] = localObjectTable[p]
    /\ localObjectInfos'[p] = localObjectInfos[p]
    /\ remoteObjectTable'[p] = remoteObjectTable[p]
    /\ sharedObjects'[p] = sharedObjects[p]
    /\ sharedObjectTable'[p] = sharedObjectTable[p]
    /\ transferComponents'[p] = transferComponents[p]
    /\ connections'[p] = connections[p]
    /\ connectionTable'[p] = connectionTable[p]
    /\ objects'[p] = objects[p]

\* C11. Idempotent local registration: addLocalObject of an object that is
\* registered changes nothing (one table entry, one component, the first info)
\* and sends nothing; the call that registers it broadcasts exactly one ADD
\* for it when a connection exists and none otherwise, so two calls make one.
IdempotentLocalRegistration ==
    [][\A o \in Objs :
          (op'["A"][1] = "addLocalObject" /\ op'["A"][2] = o) =>
              IF Has(localObjectTable["A"], o)
              THEN /\ Untouched("A")
                   /\ sent'["A"] = << >>
                   /\ thrown'["A"] = "none"
              ELSE /\ localObjectInfos'["A"][o] = op'["A"][3]
                   /\ Has(transferComponents'["A"], o)
                   /\ sent'["A"] =
                          IF connections["A"] = << >> THEN << >>
                          ELSE <<[how |-> "broadcast", to |-> Null,
                                  component |->
                                      [id |-> "A", did |-> Null, type |-> TRANSFER_TYPE_ADD,
                                       list |-> <<[id |-> o, info |-> op'["A"][3]]>>]]>>]_vars

\* A second addLocalObject of a registered object, with another info and a
\* connection, has kept the first info and sent nothing.
IdempotentLocalRegistrationWitness ==
    /\ op["A"] = <<"addLocalObject", "o1", "i2">>
    /\ Has(localObjectInfos["A"], "o1")
    /\ localObjectInfos["A"]["o1"] = "i1"
    /\ localObjects["A"] = <<"o1">>
    /\ "B" \in connectionTable["A"]
    /\ sent["A"] = << >>

\* C12. Shared uniqueness: addSharedObject with a shared id that is bound is
\* rejected with all state untouched: the binding, the array of shared
\* objects and every transfer component are what they were.
SharedUniqueness ==
    [][\A sid \in SharedIds :
          (/\ op'["A"][1] = "addSharedObject"
           /\ op'["A"][3] = sid
           /\ Has(sharedObjectTable["A"], sid)) =>
              /\ Untouched("A")
              /\ sent'["A"] = << >>
              /\ thrown'["A"] = "none"]_vars

\* A second object was offered for a bound shared id and got no component.
SharedUniquenessWitness ==
    /\ op["A"] = <<"addSharedObject", "o2", "s1">>
    /\ Has(sharedObjectTable["A"], "s1")
    /\ sharedObjectTable["A"]["s1"] = "o1"
    /\ sharedObjects["A"] = <<"o1">>
    /\ ~Has(transferComponents["A"], "o2")

\* C14. Local/shared exclusivity: no object is registered as a local and as a
\* shared object at the same time.
LocalSharedExclusivity ==
    \A o \in Objs : ~(Has(localObjectTable["A"], o) /\ o \in SharedBound("A"))

\* C15. Identifier uniqueness: no object occurs twice in the array of local
\* objects, and no SYNC component of a sync over the local objects has two
\* records with the same id.
IdentifierUniqueness ==
    /\ \A i, j \in 1..Len(localObjects["A"]) :
           i # j => localObjects["A"][i] # localObjects["A"][j]
    /\ (op["A"][1] = "sync" /\ op["A"][3]) =>
           \A k \in SyncsSent("A") :
               LET list == sent["A"][k].component.list
               IN  \A i, j \in 1..Len(list) : i # j => list[i].id # list[j].id

\* C20. Applying an ADD component from a peer: an 'add' notification (peer,
\* uuid, info) is made for exactly the records whose uuid is not in the peer's
\* remote table, in the order of the list; the other records are skipped; the
\* remote table is not changed by the handling.
AddRequestApplied ==
    [][\A peer \in {"B", "C"} :
          (/\ op'["A"][1] = "receive"
           /\ op'["A"][2].type = TRANSFER_TYPE_ADD
           /\ op'["A"][2].id = peer) =>
              LET list == op'["A"][2].list
                  fresh == SelectSeq(list, LAMBDA r : r.id \notin MirroredIds("A", peer))
                  adds == SelectSeq(notified'["A"], LAMBDA n : n[1] = "add")
              IN  /\ thrown'["A"] = "none"
                  /\ adds = [i \in 1..Len(fresh) |-> <<"add", peer, fresh[i].id, fresh[i].info>>]
                  /\ remoteObjectTable'["A"] = remoteObjectTable["A"]]_vars

\* An ADD component with a mirrored and a new object was handled: one 'add',
\* for the new one.
AddRequestAppliedWitness ==
    /\ op["A"][1] = "receive"
    /\ op["A"][2].type = TRANSFER_TYPE_ADD
    /\ op["A"][2].id = "B"
    /\ Len(op["A"][2].list) = 2
    /\ MirroredIds("A", "B") = {"r1"}
    /\ SelectSeq(notified["A"], LAMBDA n : n[1] = "add") = <<(<<"add", "B", "r2", "i2">>)>>

\* C16. Connection registry contract: addConnection returns false and changes
\* nothing when the id is the local id or has a connection, and otherwise
\* returns true, makes hasConnection true and connectionNum one larger;
\* removeConnection returns false and changes nothing when the id is the local
\* id or unknown, and otherwise returns true, makes hasConnection false and
\* connectionNum one smaller.
ConnectionRegistryContract ==
    [][\A peer \in ClientPeers :
          /\ (op'["A"][1] = "addConnection" /\ op'["A"][2] = peer) =>
                 IF peer = id["A"] \/ peer \in connectionTable["A"]
                 THEN /\ op'["A"][3] = FALSE
                      /\ Untouched("A")
                 ELSE /\ op'["A"][3] = TRUE
                      /\ peer \in connectionTable'["A"]
                      /\ Len(connections'["A"]) = Len(connections["A"]) + 1
          /\ (op'["A"][1] = "removeConnection" /\ op'["A"][2] = peer) =>
                 IF peer = id["A"] \/ peer \notin connectionTable["A"]
                 THEN /\ op'["A"][3] = FALSE
                      /\ Untouched("A")
                 ELSE /\ op'["A"][3] = TRUE
                      /\ peer \notin connectionTable'["A"]
                      /\ Len(connections'["A"]) = Len(connections["A"]) - 1]_vars

\* addConnection with the local id was rejected while two connections exist.
ConnectionRegistryContractWitness ==
    /\ op["A"] = <<"addConnection", "A", FALSE>>
    /\ Len(connections["A"]) = 2
    /\ "A" \notin connectionTable["A"]

\* The array and the table of peer p's client hold the same peers, each once.
RegistryConsistent(p) ==
    /\ {connections[p][i] : i \in 1..Len(connections[p])} = connectionTable[p]
    /\ Len(connections[p]) = Cardinality(connectionTable[p])

\* C17. Connection registry consistency: after every addConnection and
\* removeConnection the array and the table hold the same peers with no peer
\* twice, connectionNum is the number of table entries, and the array keeps
\* the order of addition: an accepted peer is appended, a removed peer is
\* taken out and the others keep their order.
ConnectionRegistryConsistency ==
    [][/\ RegistryConsistent("A")'
       /\ \A peer \in ClientPeers :
              /\ op'["A"] = <<"addConnection", peer, TRUE>> =>
                     connections'["A"] = Append(connections["A"], peer)
              /\ op'["A"] = <<"removeConnection", peer, TRUE>> =>
                     connections'["A"] = SelectSeq(connections["A"], LAMBDA c : c # peer)]_vars

\* The second of three connections was removed.
ConnectionRegistryConsistencyWitness ==
    /\ op["A"] = <<"removeConnection", "C", TRUE>>
    /\ connections["A"] = <<"B", "D">>
    /\ connectionTable["A"] = {"B", "D"}

\* The component of peer p's step passes the test of component.did.
ForMe(p, component) == component.did \in {Undef, Null, id[p]}

\* Record i of list, sent by peer, has a target at peer p: a bound shared id,
\* or a uuid in the peer's remote table.
Resolves(p, peer, list, i) ==
    IF list[i].sid # Undef THEN Has(sharedObjectTable[p], list[i].sid)
    ELSE list[i].id \in MirroredIds(p, peer)

Target(p, peer, list, i) ==
    IF list[i].sid # Undef THEN sharedObjectTable[p][list[i].sid]
    ELSE remoteObjectTable[p][peer][list[i].id]

\* The records of list that have object o as their target.
Hits(p, peer, list, o) ==
    {i \in 1..Len(list) : Resolves(p, peer, list, i) /\ Target(p, peer, list, i) = o}

Last(S) == CHOOSE i \in S : \A j \in S : j <= i

\* C13. Unknown-target tolerance: a record of a SYNC component without a
\* target (shared id not bound, no remote table of the sender, uuid not in it)
\* is dropped: it raises no error, changes no object and no transfer
\* component, and the records after it are applied.  An error can only come
\* from a record that has a target.
UnknownTargetTolerance ==
    [][(/\ op'["A"][1] = "receive"
        /\ op'["A"][2].type = TRANSFER_TYPE_SYNC
        /\ ForMe("A", op'["A"][2])) =>
           LET list == op'["A"][2].list
               peer == op'["A"][2].id
               failing == {i \in 1..Len(list) :
                              /\ Resolves("A", peer, list, i)
                              /\ list[i].sid # Undef
                              /\ ~Has(transferComponents["A"], Target("A", peer, list, i))}
           IN  /\ \A o \in Objs :
                      Hits("A", peer, list, o) = {} =>
                          /\ objects'["A"][o] = objects["A"][o]
                          /\ Get(transferComponents'["A"], o) = Get(transferComponents["A"], o)
               /\ remoteObjectTable'["A"] = remoteObjectTable["A"]
               /\ sharedObjectTable'["A"] = sharedObjectTable["A"]
               /\ thrown'["A"] # "none" => failing # {}
               /\ thrown'["A"] = "none" =>
                      \A o \in Objs :
                          Hits("A", peer, list, o) # {} =>
                              objects'["A"][o].matrix
                                  = list[Last(Hits("A", peer, list, o))].matrix]_vars

\* A SYNC component whose first record has no target and whose second has one
\* was handled: the second was applied.
UnknownTargetToleranceWitness ==
    /\ op["A"][1] = "receive"
    /\ op["A"][2].type = TRANSFER_TYPE_SYNC
    /\ ForMe("A", op["A"][2])
    /\ Len(op["A"][2].list) = 2
    /\ op["A"][2].list[1].id = "r2"
    /\ MirroredIds("A", "B") = {"r1"}
    /\ thrown["A"] = "none"
    /\ objects["A"][remoteObjectTable["A"]["B"]["r1"]].matrix = <<2, 0>>

\* C18. Destination filtering: a component whose did is neither undefined nor
\* null nor the local id is discarded before any handling: nothing changes
\* and no listener of any kind is invoked.  Any other component is handled:
\* the handling leaves a notification or an error, an ADD notifies 'add' for
\* every record that is not mirrored, user data is notified.
DestinationFiltering ==
    [][op'["A"][1] = "receive" =>
          LET component == op'["A"][2]
              list == component.list
          IN  IF ~ForMe("A", component)
              THEN /\ Untouched("A")
                   /\ notified'["A"] = << >>
                   /\ sent'["A"] = << >>
                   /\ thrown'["A"] = "none"
              ELSE /\ notified'["A"] # << >> \/ thrown'["A"] # "none"
                   /\ component.type = TRANSFER_TYPE_ADD =>
                          \A i \in 1..Len(list) :
                              list[i].id \notin MirroredIds("A", component.id) =>
                                  \E n \in 1..Len(notified'["A"]) :
                                      /\ notified'["A"][n][1] = "add"
                                      /\ notified'["A"][n][3] = list[i].id
                   /\ component.type = TRANSFER_TYPE_USER_DATA =>
                          \E n \in 1..Len(notified'["A"]) :
                              notified'["A"][n][1] = "receive_user_data"]_vars

\* A SYNC component for another peer arrived with a record for a mirrored
\* object, and the mirror was not touched.
DestinationFilteringWitness ==
    /\ op["A"][1] = "receive"
    /\ op["A"][2].did = "C"
    /\ op["A"][2].type = TRANSFER_TYPE_SYNC
    /\ op["A"][2].list[1].id = "r1"
    /\ op["A"][2].list[1].sid = Undef
    /\ MirroredIds("A", "B") = {"r1"}
    /\ objects["A"][remoteObjectTable["A"]["B"]["r1"]].matrix = <<0, 0>>
    /\ notified["A"] = << >>

\* C19. Observability of handled components: for every component that passes
\* the test of did, of whatever type, the 'receive' listeners are invoked
\* with it, after the handling of its type.
ReceivedObservability ==
    (op["A"][1] = "receive" /\ ForMe("A", op["A"][2])) =>
        /\ notified["A"] # << >>
        /\ notified["A"][Len(notified["A"])][1] = "receive"
        /\ notified["A"][Len(notified["A"])][2] = op["A"][2]

\* C21. removeLocalObject announcement: removeLocalObject of a registered
\* object deletes its table entry, its info and its transfer component and
\* broadcasts exactly one REMOVE component with the one record { id } when
\* there is a connection, and sends nothing when there is none;
\* removeLocalObject of an object that is not registered sends nothing and
\* changes nothing.
RemoveLocalAnnouncement ==
    [][\A o \in Objs :
          (op'["A"][1] = "removeLocalObject" /\ op'["A"][2] = o) =>
              IF Has(localObjectTable["A"], o)
              THEN /\ ~Has(localObjectTable'["A"], o)
                   /\ ~Has(localObjectInfos'["A"], o)
                   /\ ~Has(transferComponents'["A"], o)
                   /\ sent'["A"] =
                          IF connections["A"] = << >> THEN << >>
                          ELSE <<[how |-> "broadcast", to |-> Null,
                                  component |->
                                      [id |-> "A", did |-> Null, type |-> TRANSFER_TYPE_REMOVE,
                                       list |-> <<[id |-> o]>>]]>>
              ELSE /\ Untouched("A")
                   /\ sent'["A"] = << >>]_vars

\* A registered object was removed while a peer was connected: one REMOVE.
RemoveLocalAnnouncementWitness ==
    /\ op["A"] = <<"removeLocalObject", "o1">>
    /\ "B" \in connectionTable["A"]
    /\ Len(sent["A"]) = 1
    /\ sent["A"][1].component.type = TRANSFER_TYPE_REMOVE
    /\ ~Has(localObjectTable["A"], "o1")

\* s is t with some elements left out.
RECURSIVE IsSubSeq(_, _)
IsSubSeq(s, t) ==
    IF s = << >> THEN TRUE
    ELSE IF t = << >> THEN FALSE
    ELSE IF Head(s) = Head(t) THEN IsSubSeq(Tail(s), Tail(t))
    ELSE IsSubSeq(s, Tail(t))

\* C22. One message per tick, none when idle: a call of sync hands at most
\* one component to the client, a broadcast of type SYNC with did null; it
\* does so exactly when the record list is not empty; the list has the
\* records of local objects before those of shared objects; with onlyLocal it
\* has no record of a shared object, forced or not.
OneMessagePerTick ==
    [][op'["A"][1] = "sync" =>
          LET onlyLocal == op'["A"][3]
              list == buffer'["A"].list
              ids == [i \in 1..Len(list) |-> list[i].id]
              shared == IF onlyLocal THEN << >> ELSE sharedObjects["A"]
          IN  /\ Len(sent'["A"]) <= 1
              /\ \A i \in 1..Len(sent'["A"]) :
                     /\ sent'["A"][i].how = "broadcast"
                     /\ sent'["A"][i].component.type = TRANSFER_TYPE_SYNC
                     /\ sent'["A"][i].component.did = Null
                     /\ sent'["A"][i].component.list = list
              /\ sent'["A"] # << >> <=> list # << >>
              /\ \E k \in 0..Len(ids) :
                     /\ IsSubSeq(SubSeq(ids, 1, k), localObjects["A"])
                     /\ IsSubSeq(SubSeq(ids, k + 1, Len(ids)), shared)
              /\ onlyLocal => \A i \in 1..Len(list) : list[i].sid = Undef]_vars

\* C23. SYNC target resolution and isolation: a record without sid from a
\* peer changes only the object registered under that peer and the record's
\* uuid, a record with sid only the object bound to the sid; no other object
\* changes, whether it is a local object, a shared object or the mirror
\* another peer has under the same uuid; a transfer component changes only
\* for the target of a record with sid; no registry changes.
SyncTargetIsolation ==
    [][(/\ op'["A"][1] = "receive"
        /\ op'["A"][2].type = TRANSFER_TYPE_SYNC
        /\ ForMe("A", op'["A"][2])) =>
           LET list == op'["A"][2].list
               peer == op'["A"][2].id
               targets == {Target("A", peer, list, i) :
                              i \in {j \in 1..Len(list) : Resolves("A", peer, list, j)}}
               sharedTargets ==
                   {Target("A", peer, list, i) :
                       i \in {j \in 1..Len(list) :
                                 Resolves("A", peer, list, j) /\ list[j].sid # Undef}}
           IN  /\ \A o \in Objs \ targets : objects'["A"][o] = objects["A"][o]
               /\ \A o \in Objs \ sharedTargets :
                      Get(transferComponents'["A"], o) = Get(transferComponents["A"], o)
               /\ \A i \in 1..Len(list) :
                      list[i].sid = Undef =>
                          \A q \in DOMAIN remoteObjectTable["A"] :
                              (/\ q # peer
                               /\ Has(remoteObjectTable["A"][q], list[i].id)
                               /\ remoteObjectTable["A"][q][list[i].id] \notin targets) =>
                                  objects'["A"][remoteObjectTable["A"][q][list[i].id]]
                                      = objects["A"][remoteObjectTable["A"][q][list[i].id]]
               /\ localObjects'["A"] = localObjects["A"]
               /\ localObjectTable'["A"] = localObjectTable["A"]
               /\ localObjectInfos'["A"] = localObjectInfos["A"]
               /\ sharedObjects'["A"] = sharedObjects["A"]
               /\ sharedObjectTable'["A"] = sharedObjectTable["A"]
               /\ remoteObjectTable'["A"] = remoteObjectTable["A"]]_vars

\* Peers B and C both have a mirror under uuid r1; a record for r1 from B
\* changed B's mirror and left C's as it was.
SyncTargetIsolationWitness ==
    /\ op["A"][1] = "receive"
    /\ op["A"][2].type = TRANSFER_TYPE_SYNC
    /\ ForMe("A", op["A"][2])
    /\ op["A"][2].list = <<InboundSyncRecord("r1", Undef, <<0, 2>>)>>
    /\ MirroredIds("A", "B") = {"r1"}
    /\ MirroredIds("A", "C") = {"r1"}
    /\ remoteObjectTable["A"]["B"]["r1"] = "o1"
    /\ remoteObjectTable["A"]["C"]["r1"] = "o2"
    /\ objects["A"]["o1"].matrix = <<0, 2>>
    /\ objects["A"]["o2"].matrix = <<0, 0>>

\* The objects in a sequence.
Elements(s) == {s[i] : i \in 1..Len(s)}

\* C24. Registry structure consistency: the array of local objects, the local
\* table and the info table hold the same objects, and the array of shared
\* objects holds the objects bound in the shared table, in every reachable
\* state.
RegistryStructureConsistency ==
    /\ Elements(localObjects["A"]) = DOMAIN localObjectTable["A"]
    /\ DOMAIN localObjectInfos["A"] = DOMAIN localObjectTable["A"]
    /\ Elements(sharedObjects["A"]) = SharedBound("A")

\* The objects peer p holds as local ones, in the array or in the table.
LocalHeld(p) == Elements(localObjects[p]) \cup DOMAIN localObjectTable[p]

AdditionsSent(p) ==
    {i \in 1..Len(sent[p]) : sent[p][i].component.type = TRANSFER_TYPE_ADD}

\* The addition request that lists the local array with the infos.
Catalog(p) ==
    [i \in 1..Len(localObjects[p]) |->
        [id |-> localObjects[p][i], info |-> Get(localObjectInfos[p], localObjects[p][i])]]

\* C27. No re-announcement: a component of type ADD is handed to the client
\* only by addLocalObject of an object that was not registered (one broadcast
\* of the one record, while there is a connection) and by the 'connect'
\* listener (one unicast of the whole local array to the connected peer);
\* sync and every other operation send no ADD.
NoReannouncement ==
    [][\A i \in AdditionsSent("A")' :
          LET item == sent'["A"][i]
          IN  \/ /\ op'["A"][1] = "addLocalObject"
                 /\ ~Has(localObjectTable["A"], op'["A"][2])
                 /\ connections["A"] # << >>
                 /\ Len(sent'["A"]) = 1
                 /\ item.how = "broadcast"
                 /\ item.component.list = <<[id |-> op'["A"][2], info |-> op'["A"][3]]>>
              \/ /\ op'["A"][1] = "connect"
                 /\ i = 1
                 /\ AdditionsSent("A")' = {1}
                 /\ item.how = "send"
                 /\ item.to = op'["A"][2]
                 /\ item.component.list = Catalog("A")']_vars

\* The 'connect' listener has sent the peer an addition request with objects.
NoReannouncementWitness ==
    /\ op["A"][1] = "connect"
    /\ AdditionsSent("A") = {1}
    /\ sent["A"][1].to = "B"
    /\ Len(sent["A"][1].component.list) > 0

\* C28. Order on connect: the 'connect' listener invokes the application's
\* connect listeners with the peer first, then sends the peer the addition
\* request, then broadcasts the forced sync; the sync is never ahead of the
\* addition request.
ConnectOrdering ==
    [][op'["A"][1] = "connect" =>
          LET t == trace'["A"]
          IN  /\ Len(t) \in {2, 3}
              /\ t[1].kind = "notify"
              /\ t[1].what = <<"connect", op'["A"][2]>>
              /\ t[2].kind = "send"
              /\ t[2].what.type = TRANSFER_TYPE_ADD
              /\ t[2].what.did = op'["A"][2]
              /\ Len(t) = 3 =>
                     /\ t[3].kind = "broadcast"
                     /\ t[3].what.type = TRANSFER_TYPE_SYNC]_vars

\* The 'connect' listener has notified, sent the addition request and
\* broadcast the sync.
ConnectOrderingWitness ==
    /\ op["A"][1] = "connect"
    /\ Len(trace["A"]) = 3
    /\ trace["A"][3].kind = "broadcast"

\* C25. Framing of user data: sendUserData(destId, data) hands the client
\* exactly one component of type USER_DATA with the one element data and
\* did = destId, sent to destId; broadcastUserData(data) broadcasts exactly
\* one such component with did = null, whatever did the component had from
\* the message before; the peer that receives it invokes its
\* receive_user_data listeners with that data.
UserDataFraming ==
    [][/\ op'["A"][1] = "sendUserData" =>
              sent'["A"] =
                  <<[how |-> "send", to |-> op'["A"][2],
                     component |->
                         [id |-> "A", did |-> op'["A"][2], type |-> TRANSFER_TYPE_USER_DATA,
                          list |-> <<op'["A"][3]>>]]>>
       /\ op'["A"][1] = "broadcastUserData" =>
              sent'["A"] =
                  <<[how |-> "broadcast", to |-> Null,
                     component |->
                         [id |-> "A", did |-> Null, type |-> TRANSFER_TYPE_USER_DATA,
                          list |-> <<op'["A"][2]>>]]>>
       /\ (/\ actor' = "B"
           /\ op'["B"][1] = "receive"
           /\ op'["B"][2].type = TRANSFER_TYPE_USER_DATA) =>
              /\ ForMe("B", op'["B"][2])
              /\ Len(op'["B"][2].list) = 1
              /\ notified'["B"] = << <<"receive_user_data", op'["B"][2].list[1]>>,
                                     <<"receive", op'["B"][2]>> >>]_vars

\* Peer B's listeners got the data that peer A broadcast.
UserDataFramingWitness ==
    /\ op["A"][1] = "broadcastUserData"
    /\ actor = "B"
    /\ op["B"][1] = "receive"
    /\ op["B"][2].type = TRANSFER_TYPE_USER_DATA
    /\ notified["B"] # << >>
    /\ notified["B"][1] = <<"receive_user_data", op["A"][2]>>

\* C29. Discipline of the one transfer component: every component handed to
\* the client is the one assembled for it, with the sender's id, the did of
\* its destination (null for a broadcast) and the type and the list of the
\* operation that sends it; a component handed over earlier in the same
\* handler keeps what was assembled for it, and after a handler that ends
\* with a hand-over the transfer component is as it was handed over.
TransmitBufferDiscipline ==
    [][actor' = "A" =>
          /\ \A i \in 1..Len(sent'["A"]) :
                 LET item == sent'["A"][i]
                     component == item.component
                     call == op'["A"]
                 IN  /\ component.id = "A"
                     /\ component.did = item.to
                     /\ item.how = "broadcast" <=> item.to = Null
                     /\ CASE call[1] = "sync" ->
                                 /\ component.type = TRANSFER_TYPE_SYNC
                                 /\ item.how = "broadcast"
                                 /\ Len(component.list) = Len(localObjects["A"])
                                 /\ \A j \in 1..Len(component.list) :
                                        component.list[j] =
                                            transferComponents'["A"][localObjects["A"][j]]
                          [] call[1] = "addLocalObject" ->
                                 /\ component.type = TRANSFER_TYPE_ADD
                                 /\ item.how = "broadcast"
                                 /\ component.list = <<[id |-> call[2], info |-> call[3]]>>
                          [] call[1] = "removeLocalObject" ->
                                 /\ component.type = TRANSFER_TYPE_REMOVE
                                 /\ item.how = "broadcast"
                                 /\ component.list = <<[id |-> call[2]]>>
                          [] call[1] = "sendUserData" ->
                                 /\ component.type = TRANSFER_TYPE_USER_DATA
                                 /\ item.to = call[2]
                                 /\ component.list = <<call[3]>>
                          [] call[1] = "broadcastUserData" ->
                                 /\ component.type = TRANSFER_TYPE_USER_DATA
                                 /\ item.how = "broadcast"
                                 /\ component.list = <<call[2]>>
                          [] call[1] = "connect" ->
                                 IF i = 1
                                 THEN /\ component.type = TRANSFER_TYPE_ADD
                                      /\ item.to = call[2]
                                      /\ component.list = Catalog("A")'
                                 ELSE /\ i = 2
                                      /\ component.type = TRANSFER_TYPE_SYNC
                                      /\ item.how = "broadcast"
                                      /\ Len(component.list) = Len(localObjects["A"])
                                      /\ \A j \in 1..Len(component.list) :
                                             component.list[j] =
                                                 transferComponents'["A"][localObjects["A"][j]]
                          [] OTHER -> FALSE
          /\ (sent'["A"] # << >> /\ (op'["A"][1] = "connect" => Len(sent'["A"]) = 2)) =>
                 sent'["A"][Len(sent'["A"])].component = buffer'["A"]]_vars

\* The 'connect' listener has handed over the addition request and then the
\* sync: the first keeps its type, did and list, the component holds the second.
TransmitBufferDisciplineWitness ==
    /\ actor = "A"
    /\ op["A"][1] = "connect"
    /\ Len(sent["A"]) = 2
    /\ sent["A"][1].component.type = TRANSFER_TYPE_ADD
    /\ sent["A"][1].component.did = "B"
    /\ sent["A"][2].component = buffer["A"]
    /\ buffer["A"].type = TRANSFER_TYPE_SYNC

====
